---- MODULE Spec2Model ----
(***************************************************************************)
(* Model of skills/vuetify0/scripts/check_patterns.py: the PatternChecker  *)
(* class (file collection, rule matching, issue aggregation), the severity *)
(* filter and exit behaviour of main, and print_text_report; and of        *)
(* skills/vuetify0/scripts/scaffold_pattern.py: PatternScaffolder.scaffold *)
(* and its generators, with the destination directory and file.            *)
(*                                                                         *)
(* Text is modelled at the granularity the code looks at it:               *)
(*  - a path is a sequence of segments, a segment a sequence of tokens, so *)
(*    that str(path) is the token sequence joined with "/" and the         *)
(*    substring test of check_project is a search in that sequence;        *)
(*  - a file content is a sequence of lines separated by "\n" tokens,     *)
(*    which split takes apart as content.split('\n') does; re.search of   *)
(*    each catalog pattern on each sample line was evaluated with the      *)
(*    source's regular expressions and is tabulated in Matching.           *)
(***************************************************************************)
EXTENDS Integers, Sequences, FiniteSets, TLC

VARIABLES caller, argv, tree, pc, calls, all_files, pos, issues, checked,
          opened, returns, result, output, status, raised,
          pattern_type, kwargs, code, fs, fs_before, step, failure

\* the state of a check_patterns run
cvars == <<caller, argv, tree, pc, calls, all_files, pos, issues, checked,
           opened, returns, result, output, status, raised>>

\* the state of a PatternScaffolder.scaffold call
svars == <<pattern_type, kwargs, code, fs, fs_before, step, failure>>

vars == <<cvars, svars>>

(* ------------------------------ bounds --------------------------------- *)

\* most lines in one file of the scanned tree
MaxLines == 2

\* most check_project calls an importing script makes on one PatternChecker
MaxCalls == 2

(* --------------------------- the rule catalog --------------------------- *)

\* _check_selection_patterns: the four selection rules, in declaration order
SelectionPatterns ==
  << [pattern |-> "ref<.*[]>([])", severity |-> "warning",
      message |-> "Manual array selection - consider createSelection()",
      suggestion |-> "Replace with createSelection({ multiple: true })"],
     [pattern |-> ".includes(.*) ? .*.filter(", severity |-> "info",
      message |-> "Manual selection filtering - v0 handles this automatically",
      suggestion |-> "Use selection.isSelected() and selection composables"],
     [pattern |-> "splice(w+, 1)", severity |-> "warning",
      message |-> "Manual array manipulation for selection",
      suggestion |-> "Use selection.toggle() or selection.remove()"],
     [pattern |-> "selected.value = selected.value === .* ? null", severity |-> "warning",
      message |-> "Manual single selection toggle logic",
      suggestion |-> "Use createSingle() composable"] >>

\* _check_context_patterns
ContextPatterns ==
  << [pattern |-> "inject('...')", severity |-> "error",
      message |-> "Unsafe provide/inject - no type safety",
      suggestion |-> "Use createContext() for type-safe DI"],
     [pattern |-> "provide('...',", severity |-> "warning",
      message |-> "Manual provide - consider createContext()",
      suggestion |-> "Use createContext() for better error handling"] >>

\* _check_browser_patterns
BrowserPatterns ==
  << [pattern |-> "typeof window !== 'undefined'", severity |-> "info",
      message |-> "Manual SSR check - not tree-shakeable",
      suggestion |-> "Use IN_BROWSER constant from @vuetify/v0/constants"],
     [pattern |-> "new ResizeObserver", severity |-> "warning",
      message |-> "Manual ResizeObserver - no auto-cleanup",
      suggestion |-> "Use useResizeObserver() composable"],
     [pattern |-> "addEventListener('resize'", severity |-> "warning",
      message |-> "Manual resize listener - memory leak potential",
      suggestion |-> "Use useEventListener() for auto-cleanup"],
     [pattern |-> "new IntersectionObserver", severity |-> "info",
      message |-> "Manual IntersectionObserver setup",
      suggestion |-> "Use useIntersectionObserver() composable"] >>

\* _check_form_patterns
FormPatterns ==
  << [pattern |-> "ref<string>('').*Error.*ref<string>", severity |-> "info",
      message |-> "Manual form field validation state",
      suggestion |-> "Use createForm() for integrated validation"],
     [pattern |-> "if (!w+.value) { w+Error", severity |-> "warning",
      message |-> "Manual validation logic",
      suggestion |-> "Use form.register() with rules array"] >>

\* the order in which _check_file runs the four categories
Categories ==
  << [category |-> "selection", patterns |-> SelectionPatterns],
     [category |-> "context",   patterns |-> ContextPatterns],
     [category |-> "browser",   patterns |-> BrowserPatterns],
     [category |-> "forms",     patterns |-> FormPatterns] >>

(* ----------------------------- sample lines ----------------------------- *)

LineSelection == "const selected = ref<string[]>([])"
LineContext   == "provide('k', inject('k'))"
LineBrowser   == "  if (typeof window !== 'undefined') new ResizeObserver(cb)"

Lines == {LineSelection, LineContext, LineBrowser}

\* re.search(pattern, line) for the sample lines: the patterns that match
Matching(line) ==
  CASE line = LineSelection -> {"ref<.*[]>([])"}
    [] line = LineContext   -> {"inject('...')", "provide('...',"}
    [] line = LineBrowser   -> {"typeof window !== 'undefined'", "new ResizeObserver"}
    [] OTHER                -> {}

re_search(pattern, line) == pattern \in Matching(line)

\* line.strip()
strip(line) ==
  IF line = LineBrowser
    THEN "if (typeof window !== 'undefined') new ResizeObserver(cb)"
    ELSE line

(* ------------------------------ the paths ------------------------------- *)

\* the project root given on the command line
ProjectPath == << <<"proj">> >>

\* the entries under the project root, as relative paths
FileA == << <<"a", ".vue">> >>
FileB == << <<"src">>, <<"b", ".ts">> >>
FileC == << <<"node_modules">>, <<"pkg">>, <<"c", ".js">> >>
FileD == << <<"node_modules", "_old">>, <<"d", ".ts">> >>
FileE == << <<"src">>, <<"e", ".TS">> >>

Entries == {FileA, FileB, FileC, FileD, FileE}

\* str(path): the segments joined with "/"
RECURSIVE str(_)
str(path) ==
  IF path = <<>> THEN <<>>
  ELSE IF Len(path) = 1 THEN path[1]
  ELSE path[1] \o <<"/">> \o str(Tail(path))

\* needle in haystack, for a one-token needle
Contains(haystack, needle) == \E i \in 1..Len(haystack) : haystack[i] = needle

\* the suffix of the last segment
Suffix(path) == LET name == path[Len(path)] IN name[Len(name)]

\* some segment of the path is exactly the token
HasSegment(path, token) == \E i \in 1..Len(path) : path[i] = <<token>>

(* --------------------------- the scanned tree --------------------------- *)

\* '\n'.join(lines): the text of a file as its lines separated by newlines
RECURSIVE join(_)
join(lines) ==
  IF Len(lines) = 0 THEN <<>>
  ELSE IF Len(lines) = 1 THEN <<lines[1]>>
  ELSE <<lines[1], "\n">> \o join(Tail(lines))

\* the texts a scanned file may hold: empty, or 1..MaxLines sample lines
Contents ==
  {<<>>} \cup
  UNION { {join(ls) : ls \in [1..n -> Lines]} : n \in 1..MaxLines }

Absent   == [kind |-> "absent",   content |-> <<>>]
Binary   == [kind |-> "binary",   content |-> <<>>]
NoPerm   == [kind |-> "noperm",   content |-> <<>>]
Dangling == [kind |-> "dangling", content |-> <<>>]
Text(c)  == [kind |-> "text",     content |-> c]

\* the trees the scan is run on
Trees ==
  { [f \in Entries |->
       CASE f = FileA -> a
         [] f = FileB -> b
         [] OTHER     -> Text(<<LineContext>>)] :
    a \in {Absent} \cup {Text(c) : c \in Contents},
    b \in {Absent, Binary, NoPerm, Dangling} \cup {Text(c) : c \in Contents} }

\* the command lines main is started with
Argvs ==
  [has_path : BOOLEAN, format : {"text", "json", "xml"},
   severity : {"None", "error", "warning", "info", "fatal"}]

NoArgv == [has_path |-> TRUE, format |-> "text", severity |-> "None"]

(* --------------------------- PatternChecker ----------------------------- *)

\* content.split('\n')
RECURSIVE split(_)
split(content) ==
  IF content = <<>> THEN <<"">>
  ELSE IF Head(content) = "\n" THEN <<"">> \o split(Tail(content))
  ELSE <<Head(content)>> \o Tail(split(Tail(content)))

\* the dict appended by _apply_patterns for one match
Issue(file_path, line_num, line, pattern_def, category) ==
  [file       |-> str(file_path),
   line       |-> line_num,
   category   |-> category,
   severity   |-> pattern_def.severity,
   message    |-> pattern_def.message,
   suggestion |-> pattern_def.suggestion,
   code       |-> strip(line)]

\* match_lines with a break after the first matching line of a pattern
RECURSIVE match_lines_first_only(_, _, _, _, _)
match_lines_first_only(file_path, lines, pattern_def, category, line_num) ==
  IF line_num > Len(lines) THEN <<>>
  ELSE IF re_search(pattern_def.pattern, lines[line_num])
    THEN <<Issue(file_path, line_num, lines[line_num], pattern_def, category)>>
    ELSE match_lines_first_only(file_path, lines, pattern_def, category, line_num + 1)

\* the inner loop of _apply_patterns: enumerate(lines, 1) from line_num on
RECURSIVE match_lines(_, _, _, _, _)
match_lines(file_path, lines, pattern_def, category, line_num) ==
  IF line_num > Len(lines) THEN <<>>
  ELSE (IF re_search(pattern_def.pattern, lines[line_num])
          THEN <<Issue(file_path, line_num, lines[line_num], pattern_def, category)>>
          ELSE <<>>)
       \o match_lines(file_path, lines, pattern_def, category, line_num + 1)

\* the outer loop of _apply_patterns: the pattern definitions from k on
RECURSIVE match_patterns(_, _, _, _, _)
match_patterns(file_path, lines, patterns, category, k) ==
  IF k > Len(patterns) THEN <<>>
  ELSE match_lines(file_path, lines, patterns[k], category, 1)
       \o match_patterns(file_path, lines, patterns, category, k + 1)

\* what _apply_patterns appends to self.issues
apply_patterns(file_path, content, patterns, category) ==
  match_patterns(file_path, split(content), patterns, category, 1)

\* what _check_file appends to self.issues for a file that was read
check_file(file_path, content) ==
  apply_patterns(file_path, content, Categories[1].patterns, Categories[1].category)
  \o apply_patterns(file_path, content, Categories[2].patterns, Categories[2].category)
  \o apply_patterns(file_path, content, Categories[3].patterns, Categories[3].category)
  \o apply_patterns(file_path, content, Categories[4].patterns, Categories[4].category)

\* the exception open()/read() raises on a file, "none" when it is read
ReadError(file) ==
  CASE file.kind = "binary"   -> "UnicodeDecodeError"
    [] file.kind = "dangling" -> "FileNotFoundError"
    [] file.kind = "noperm"   -> "PermissionError"
    [] OTHER                  -> "none"

\* the except clause of _check_file
Caught == {"UnicodeDecodeError", "FileNotFoundError"}

\* the orders in which a directory walk may yield a set of entries
Orders(S) ==
  {s \in [1..Cardinality(S) -> S] : \A i, j \in 1..Cardinality(S) : i # j => s[i] # s[j]}

\* project_path.rglob("*" + suffix): every entry with that suffix, in walk order
rglob(suffix) == Orders({f \in Entries : tree[f].kind # "absent" /\ Suffix(f) = suffix})

\* the test of the loop of check_project: "node_modules" in str(file_path)
Excluded(f) == Contains(str(ProjectPath \o f), "node_modules")

(* ------------------------- main and the report -------------------------- *)

\* parse_args with no choices on --format
parse_args_any_format(a) ==
  /\ a.has_path
  /\ a.severity \in {"None", "error", "warning", "info"}

\* what parser.parse_args() accepts: project_path given, --format and
\* --severity among their choices (--severity may be left out)
parse_args(a) ==
  /\ a.has_path
  /\ a.format \in {"text", "json"}
  /\ a.severity \in {"None", "error", "warning", "info"}

\* severity_levels with the levels of warning and info exchanged
severity_levels_swapped == [error |-> 3, warning |-> 1, info |-> 2]

\* severity_levels of main
severity_levels == [error |-> 3, warning |-> 2, info |-> 1]

\* the comprehension with > in place of >=
RECURSIVE keep_above_level(_, _)
keep_above_level(iss, min_level) ==
  IF iss = <<>> THEN <<>>
  ELSE (IF severity_levels[Head(iss).severity] > min_level
          THEN <<Head(iss)>> ELSE <<>>)
       \o keep_above_level(Tail(iss), min_level)

\* [i for i in issues if severity_levels[i['severity']] >= min_level]
RECURSIVE keep_min_level(_, _)
keep_min_level(iss, min_level) ==
  IF iss = <<>> THEN <<>>
  ELSE (IF severity_levels[Head(iss).severity] >= min_level
          THEN <<Head(iss)>> ELSE <<>>)
       \o keep_min_level(Tail(iss), min_level)

\* "Filter by severity if specified" in main
filter_by_severity(iss, severity) ==
  IF severity # "None"
    THEN keep_min_level(iss, severity_levels[severity])
    ELSE iss

\* severity_icon of print_text_report
severity_icon == [error |-> "cross", warning |-> "warning-sign", info |-> "info-sign"]

\* the four lines print_text_report prints for one issue
IssueItem(issue) ==
  [kind |-> "issue", icon |-> severity_icon[issue.severity], line |-> issue.line,
   message |-> issue.message, code |-> issue.code, suggestion |-> issue.suggestion]

\* grouping that opens a new group whenever the file differs from the last one
RECURSIVE group_by_run(_, _)
group_by_run(iss, by_file) ==
  IF iss = <<>> THEN by_file
  ELSE LET issue == Head(iss)
           n     == Len(by_file)
       IN group_by_run(Tail(iss),
            IF n > 0 /\ by_file[n].file = issue.file
              THEN [by_file EXCEPT ![n].file_issues = Append(@, issue)]
              ELSE Append(by_file, [file |-> issue.file, file_issues |-> <<issue>>]))

\* the "Group by file" loop: by_file as its (key, list) pairs in insertion order
RECURSIVE group_by_file(_, _)
group_by_file(iss, by_file) ==
  IF iss = <<>> THEN by_file
  ELSE LET issue == Head(iss)
           file  == issue.file
           known == \E k \in 1..Len(by_file) : by_file[k].file = file
           added == IF known THEN by_file
                    ELSE Append(by_file, [file |-> file, file_issues |-> <<>>])
       IN group_by_file(Tail(iss),
            [k \in 1..Len(added) |->
               IF added[k].file = file
                 THEN [added[k] EXCEPT !.file_issues = Append(@, issue)]
                 ELSE added[k]])

\* the lines printed for the issues of one file
RECURSIVE print_issues(_)
print_issues(file_issues) ==
  IF file_issues = <<>> THEN <<>>
  ELSE <<IssueItem(Head(file_issues))>> \o print_issues(Tail(file_issues))

\* the loop over by_file.items()
RECURSIVE print_files(_)
print_files(by_file) ==
  IF by_file = <<>> THEN <<>>
  ELSE <<[kind |-> "file", file |-> Head(by_file).file]>>
       \o print_issues(Head(by_file).file_issues)
       \o <<[kind |-> "blank"]>>
       \o print_files(Tail(by_file))

\* print_text_report without the early return on no issues
print_text_report_no_guard(iss) ==
  <<[kind |-> "found", count |-> Len(iss)]>>
  \o print_files(group_by_file(iss, <<>>))

\* print_text_report: the lines written to standard output
print_text_report(iss) ==
  IF iss = <<>> THEN <<[kind |-> "no-anti-patterns"]>>
  ELSE <<[kind |-> "found", count |-> Len(iss)]>>
       \o print_files(group_by_file(iss, <<>>))

\* print(json.dumps(issues, indent=2))
print_json(iss) == <<[kind |-> "json", document |-> iss]>>

\* a status that reports findings, as linters commonly do
exit_status_on_findings(rendered) == IF rendered # <<>> THEN 1 ELSE 0

\* the status of a process whose main returned
exit_status(rendered) == 0

(* -------------------------- PatternScaffolder --------------------------- *)

\* the keys of self.patterns
self_patterns == {"selection", "form", "context", "registry", "component"}

\* the pattern types scaffold is called with
PatternTypes == self_patterns \cup {"bogus"}

\* a named parameter that was not passed
Unset == [type |-> "unset", text |-> <<>>]

\* a str value, as its tokens
Str(text) == [type |-> "str", text |-> text]

\* a value that is not a str
NotStr == [type |-> "int", text |-> <<>>]

\* what a function that falls off its end returns
None == [type |-> "NoneType", text |-> <<>>]

\* the named parameters scaffold is called with
Kwargs ==
  [name : {Unset, Str(<<"use", "Thing">>), NotStr},
   selection_type : {"unset", "single", "multi", "group", "weird"}]

\* the default of a named parameter
Default(value, default) == IF value = Unset THEN Str(default) ELSE value

\* text.replace(old, '')
replace(text, old) == SelectSeq(text, LAMBDA t : t # old)

\* a generator that returned a value / that raised
Returns(value) == [raises |-> "none", value |-> value]
Raises(exception) == [raises |-> exception, value |-> None]

\* the template of the selection and registry generators
item_template(create, name) ==
  IF name.type # "str" THEN Raises("AttributeError")   \* name.replace
  ELSE Returns(Str(<<"import", create, "interface">> \o replace(name.text, "use")
                   \o <<"Item", "function">> \o name.text))

\* _generate_selection
generate_selection(kw) ==
  LET selection_type == IF kw.selection_type = "unset" THEN "multi" ELSE kw.selection_type
      name == Default(kw.name, <<"use", "Selection">>)
  IN IF selection_type = "single" THEN item_template("createSingle", name)
     ELSE IF selection_type = "multi" THEN item_template("createSelection", name)
     ELSE IF selection_type = "group" THEN item_template("createGroup", name)
     ELSE Returns(None)

\* _generate_form
generate_form(kw) ==
  LET name == Default(kw.name, <<"use", "Form">>)
  IN IF name.type # "str" THEN Raises("AttributeError")
     ELSE Returns(Str(<<"import", "createForm", "interface">> \o replace(name.text, "use")
                      \o <<"Field", "function">> \o name.text))

\* _generate_context
generate_context(kw) ==
  LET name == Default(kw.name, <<"use", "App", "Context">>)
  IN IF name.type # "str" THEN Raises("AttributeError")
     ELSE LET context_name == replace(replace(name.text, "use"), "Context")
          IN Returns(Str(<<"import", "createContext", "interface">> \o context_name
                         \o <<"State", "function", "create">> \o context_name
                         \o <<"Provider">>))

\* _generate_registry
generate_registry(kw) ==
  item_template("createRegistry", Default(kw.name, <<"use", "Registry">>))

\* _generate_component: the f-string evaluates name.lower() and then
\* props.color, and no props is in scope
generate_component(kw) ==
  LET name == Default(kw.name, <<"Custom", "Component">>)
  IN IF name.type # "str" THEN Raises("AttributeError") ELSE Raises("NameError")

\* generator(**kwargs) for generator = self.patterns[pattern_type]
generator(type, kw) ==
  CASE type = "selection" -> generate_selection(kw)
    [] type = "form"      -> generate_form(kw)
    [] type = "context"   -> generate_context(kw)
    [] type = "registry"  -> generate_registry(kw)
    [] type = "component" -> generate_component(kw)

\* the destination: the parent directory of output_path and the file there
NoDir == [dir |-> FALSE, file |-> FALSE, writable |-> TRUE, data |-> <<>>]
EmptyDir == [dir |-> TRUE, file |-> FALSE, writable |-> TRUE, data |-> <<>>]
OldFile == [dir |-> TRUE, file |-> TRUE, writable |-> TRUE, data |-> <<"old", "content">>]
ReadOnlyFile == [dir |-> TRUE, file |-> TRUE, writable |-> FALSE, data |-> <<"old", "content">>]

Destinations == {NoDir, EmptyDir, OldFile, ReadOnlyFile}

(* ------------------------------ behaviour ------------------------------- *)

Init ==
  /\ caller \in {"main", "import"}
  /\ argv \in (IF caller = "main" THEN Argvs ELSE {NoArgv})
  /\ tree \in Trees
  /\ pc = "start"
  /\ calls = 0
  /\ all_files = <<>>
  /\ pos = 0
  /\ issues = <<>>
  /\ checked = <<>>
  /\ opened = {}
  /\ returns = <<>>
  /\ result = <<>>
  /\ output = <<>>
  /\ status = -1   \* the process has not ended
  /\ raised = "none"
  /\ pattern_type = "selection"
  /\ kwargs = [name |-> Unset, selection_type |-> "unset"]
  /\ code = None
  /\ fs = NoDir
  /\ fs_before = NoDir
  /\ step = "idle"
  /\ failure = "none"

\* main up to the call of check_project: parse_args, PatternChecker(...)
ParseArgs ==
  /\ pc = "start" /\ caller = "main"
  /\ IF parse_args(argv)
       THEN /\ pc' = "check_project"
            /\ calls' = 1
            /\ issues' = <<>>
            /\ status' = status
       ELSE /\ pc' = "exit"
            /\ status' = 2
            /\ UNCHANGED <<calls, issues>>
  /\ UNCHANGED <<caller, argv, tree, all_files, pos, checked, opened,
                 returns, result, output, raised>>
  /\ UNCHANGED svars

\* a script that imports the module builds a PatternChecker and scans
Import ==
  /\ pc = "start" /\ caller = "import"
  /\ pc' = "check_project"
  /\ calls' = 1
  /\ issues' = <<>>
  /\ UNCHANGED <<caller, argv, tree, all_files, pos, checked, opened,
                 returns, result, output, status, raised>>
  /\ UNCHANGED svars

\* check_project, the three rglob calls and all_files
Collect ==
  /\ pc = "check_project"
  /\ \E vue_files \in rglob(".vue"), js_files \in rglob(".js"), ts_files \in rglob(".ts") :
       all_files' = vue_files \o js_files \o ts_files
  /\ pos' = 1
  /\ pc' = "loop"
  /\ UNCHANGED <<caller, argv, tree, calls, issues, checked, opened,
                 returns, result, output, status, raised>>
  /\ UNCHANGED svars

\* one pass of the loop of check_project on a path that is skipped
Skip ==
  /\ pc = "loop" /\ pos <= Len(all_files)
  /\ Excluded(all_files[pos])
  /\ pos' = pos + 1
  /\ UNCHANGED <<caller, argv, tree, pc, calls, all_files, issues, checked,
                 opened, returns, result, output, status, raised>>
  /\ UNCHANGED svars

\* one pass of the loop of check_project that calls _check_file
CheckFile ==
  /\ pc = "loop" /\ pos <= Len(all_files)
  /\ ~Excluded(all_files[pos])
  /\ LET file_path == all_files[pos]
         file      == tree[file_path]
         error     == ReadError(file)
     IN /\ checked' = Append(checked, file_path)
        /\ opened' = opened \cup {file_path}
        /\ IF error = "none"
             THEN /\ issues' = issues \o check_file(file_path, file.content)
                  /\ pos' = pos + 1
                  /\ UNCHANGED <<pc, status, raised>>
             ELSE IF error \in Caught
               THEN /\ pos' = pos + 1
                    /\ UNCHANGED <<issues, pc, status, raised>>
               ELSE \* nothing up to the interpreter catches it
                    /\ raised' = error
                    /\ status' = 1
                    /\ pc' = "exit"
                    /\ UNCHANGED <<issues, pos>>
  /\ UNCHANGED <<caller, argv, tree, calls, all_files, returns, result, output>>
  /\ UNCHANGED svars

\* return self.issues
Return ==
  /\ pc = "loop" /\ pos > Len(all_files)
  /\ returns' = Append(returns, issues)
  /\ result' = issues
  /\ pc' = "returned"
  /\ UNCHANGED <<caller, argv, tree, calls, all_files, pos, issues, checked,
                 opened, output, status, raised>>
  /\ UNCHANGED svars

\* main: the severity filter
Filter ==
  /\ pc = "returned" /\ caller = "main"
  /\ result' = filter_by_severity(result, argv.severity)
  /\ pc' = "filtered"
  /\ UNCHANGED <<caller, argv, tree, calls, all_files, pos, issues, checked,
                 opened, returns, output, status, raised>>
  /\ UNCHANGED svars

\* main: the report in the chosen format, and the end of the process
Render ==
  /\ pc = "filtered"
  /\ output' = IF argv.format = "json" THEN print_json(result)
               ELSE print_text_report(result)
  /\ status' = exit_status(result)
  /\ pc' = "exit"
  /\ UNCHANGED <<caller, argv, tree, calls, all_files, pos, issues, checked,
                 opened, returns, result, raised>>
  /\ UNCHANGED svars

\* the importing script calls check_project again on the same PatternChecker
CallAgain ==
  /\ pc = "returned" /\ caller = "import"
  /\ calls < MaxCalls
  /\ calls' = calls + 1
  /\ pc' = "check_project"
  /\ UNCHANGED <<caller, argv, tree, all_files, pos, issues, checked, opened,
                 returns, result, output, status, raised>>
  /\ UNCHANGED svars

\* the importing script prints the text report of what it was returned
Report ==
  /\ pc = "returned" /\ caller = "import"
  /\ output' = print_text_report(result)
  /\ status' = exit_status(result)
  /\ pc' = "exit"
  /\ UNCHANGED <<caller, argv, tree, calls, all_files, pos, issues, checked,
                 opened, returns, result, raised>>
  /\ UNCHANGED svars

Next ==
  \/ ParseArgs
  \/ Import
  \/ Collect
  \/ Skip
  \/ CheckFile
  \/ Return
  \/ Filter
  \/ Render
  \/ CallAgain
  \/ Report

Spec == Init /\ [][Next]_vars

(* ------------------------ behaviour of scaffold ------------------------- *)

\* a call scaffold(pattern_type, output_path, **kwargs); no scan is running
InitScaffold ==
  /\ pattern_type \in PatternTypes
  /\ kwargs \in Kwargs
  /\ fs \in Destinations
  /\ fs_before = fs
  /\ code = None
  /\ step = "call"
  /\ failure = "none"
  /\ caller = "import"
  /\ argv = NoArgv
  /\ tree = [f \in Entries |-> Absent]
  /\ pc = "idle"
  /\ calls = 0
  /\ all_files = <<>>
  /\ pos = 0
  /\ issues = <<>>
  /\ checked = <<>>
  /\ opened = {}
  /\ returns = <<>>
  /\ result = <<>>
  /\ output = <<>>
  /\ status = -1
  /\ raised = "none"

\* scaffold: the test of pattern_type and the lookup of the generator
Lookup ==
  /\ step = "call"
  /\ IF pattern_type \notin self_patterns
       THEN step' = "failed" /\ failure' = "ValueError"
       ELSE step' = "generate" /\ failure' = failure
  /\ UNCHANGED <<pattern_type, kwargs, code, fs, fs_before>>
  /\ UNCHANGED cvars

\* scaffold: code = generator(**kwargs)
Generate ==
  /\ step = "generate"
  /\ LET r == generator(pattern_type, kwargs)
     IN IF r.raises # "none"
          THEN step' = "failed" /\ failure' = r.raises /\ code' = code
          ELSE step' = "mkdir" /\ failure' = failure /\ code' = r.value
  /\ UNCHANGED <<pattern_type, kwargs, fs, fs_before>>
  /\ UNCHANGED cvars

\* scaffold: output_file.parent.mkdir(parents=True, exist_ok=True)
MakeDirs ==
  /\ step = "mkdir"
  /\ fs' = [fs EXCEPT !.dir = TRUE]
  /\ step' = "open"
  /\ UNCHANGED <<pattern_type, kwargs, code, fs_before, failure>>
  /\ UNCHANGED cvars

\* scaffold: open(output_file, 'w') creates the file or truncates it
Open ==
  /\ step = "open"
  /\ IF fs.file /\ ~fs.writable
       THEN step' = "failed" /\ failure' = "PermissionError" /\ fs' = fs
       ELSE /\ fs' = [fs EXCEPT !.file = TRUE, !.data = <<>>]
            /\ step' = "write"
            /\ failure' = failure
  /\ UNCHANGED <<pattern_type, kwargs, code, fs_before>>
  /\ UNCHANGED cvars

\* scaffold: f.write(code), the end of the with block, and the print
Write ==
  /\ step = "write"
  /\ IF code.type # "str"
       THEN step' = "failed" /\ failure' = "TypeError" /\ fs' = fs
       ELSE /\ fs' = [fs EXCEPT !.data = code.text]
            /\ step' = "done"
            /\ failure' = failure
  /\ UNCHANGED <<pattern_type, kwargs, code, fs_before>>
  /\ UNCHANGED cvars

NextScaffold ==
  \/ Lookup
  \/ Generate
  \/ MakeDirs
  \/ Open
  \/ Write

SpecScaffold == InitScaffold /\ [][NextScaffold]_vars

(* ------------------------------- claims --------------------------------- *)

Range(s) == {s[i] : i \in 1..Len(s)}

\* the run has an issue sequence that check_project returned
Returned == pc \in {"returned", "filtered"} \/ (pc = "exit" /\ output # <<>>)

\* the files the File Collector is to hand to _check_file: present, with one
\* of the three extensions, and with no segment equal to node_modules
C1_Candidates ==
  {f \in Entries : /\ tree[f].kind # "absent"
                   /\ Suffix(f) \in {".vue", ".js", ".ts"}
                   /\ ~HasSegment(ProjectPath \o f, "node_modules")}

\* C1: once check_project has returned, the files passed to _check_file are
\* exactly the present files with extension .vue, .js or .ts and no path
\* segment equal to node_modules, and no Issue names a file that has a
\* node_modules segment.
C1_ScansExactlyUnexcluded ==
  Returned =>
    /\ Range(checked) = C1_Candidates
    /\ \A i \in 1..Len(issues) :
         \A f \in Entries :
           HasSegment(f, "node_modules") => issues[i].file # str(f)

\* C2: a file whose read fails (decode failure, missing file, permission
\* error) never makes _check_file raise and contributes no Issue.
C2_ReadFailureIsSkipped ==
  \A f \in opened :
    ReadError(tree[f]) # "none" =>
      /\ raised = "none"
      /\ \A i \in 1..Len(issues) : issues[i].file # str(f)

C3_FilePos(file) == CHOOSE k \in 1..Len(all_files) : str(all_files[k]) = file

C3_CategoryPos(category) ==
  CHOOSE k \in 1..Len(Categories) : Categories[k].category = category

C3_RulePos(category, message) ==
  LET patterns == Categories[C3_CategoryPos(category)].patterns
  IN CHOOSE k \in 1..Len(patterns) : patterns[k].message = message

C3_Key(issue) ==
  << C3_FilePos(issue.file), C3_CategoryPos(issue.category),
     C3_RulePos(issue.category, issue.message), issue.line >>

\* lexicographic a <= b on 4-tuples of numbers
C3_Leq(a, b) ==
  \/ a[1] < b[1]
  \/ a[1] = b[1] /\ a[2] < b[2]
  \/ a[1] = b[1] /\ a[2] = b[2] /\ a[3] < b[3]
  \/ a[1] = b[1] /\ a[2] = b[2] /\ a[3] = b[3] /\ a[4] <= b[4]

\* C3: the sequence check_project returns is ordered by (file discovery
\* order, category order, rule order, line number), and the Issues of one
\* file are contiguous in it.
C3_ReturnedInOrder ==
  pc = "returned" =>
    /\ \A i, j \in 1..Len(result) :
         i < j => C3_Leq(C3_Key(result[i]), C3_Key(result[j]))
    /\ \A i, j, k \in 1..Len(result) :
         (i < k /\ k < j /\ result[i].file = result[j].file)
           => result[k].file = result[i].file

\* the same on the first call of a PatternChecker only
C3_FirstCallInOrder == calls = 1 => C3_ReturnedInOrder

\* the line sequences a file of the tree is written from
C4_LineSeqs == UNION { [1..n -> Lines] : n \in 0..MaxLines }

\* the lines a content was written from
C4_Written(content) == CHOOSE ls \in C4_LineSeqs : join(ls) = content

\* the Issues of a sequence that report rule r of category c at line n of a file
C4_Reports(emitted, file, c, r, n) ==
  {i \in 1..Len(emitted) :
     /\ emitted[i].file = str(file)
     /\ emitted[i].category = Categories[c].category
     /\ emitted[i].message = Categories[c].patterns[r].message
     /\ emitted[i].line = n}

\* the (category, rule, line) triples of a line sequence where the rule matches
C4_Matches(ls) ==
  {t \in (1..Len(Categories)) \X (1..4) \X (1..Len(ls)) :
     /\ t[2] <= Len(Categories[t[1]].patterns)
     /\ Categories[t[1]].patterns[t[2]].pattern \in Matching(ls[t[3]])}

\* C4: a step that scans a readable file appends exactly one Issue for each
\* (rule, line) pair where the rule matches the line (line numbers counted
\* from 1) and none for any other pair; the Issues of one rule have strictly
\* increasing line numbers.
C4_OneIssuePerMatch ==
  [][ ( /\ pc = "loop" /\ pos <= Len(all_files) /\ pos' = pos + 1
        /\ checked' # checked
        /\ tree[all_files[pos]].kind = "text" )
      => LET file    == all_files[pos]
             ls      == C4_Written(tree[file].content)
             emitted == SubSeq(issues', Len(issues) + 1, Len(issues'))
         IN /\ SubSeq(issues', 1, Len(issues)) = issues
            /\ \A c \in 1..Len(Categories) :
                 \A r \in 1..Len(Categories[c].patterns) :
                   \A n \in 1..Len(ls) :
                     Cardinality(C4_Reports(emitted, file, c, r, n)) =
                       IF <<c, r, n>> \in C4_Matches(ls) THEN 1 ELSE 0
            /\ Len(emitted) = Cardinality(C4_Matches(ls))
            /\ \A i, j \in 1..Len(emitted) :
                 (i < j /\ emitted[i].message = emitted[j].message)
                   => emitted[i].line < emitted[j].line
    ]_vars

\* a file of one line repeated twice, which two rules match, was scanned
C4_Witness ==
  /\ calls = 1
  /\ checked = <<FileB>>
  /\ tree[FileB] = Text(join(<<LineContext, LineContext>>))
  /\ Len(issues) = 4
  /\ [i \in 1..4 |-> issues[i].line] = <<1, 2, 1, 2>>
  /\ issues[1].message = issues[2].message
  /\ issues[1].message # issues[3].message

\* the ranking info < warning < error
RankOf(severity) ==
  CASE severity = "info" -> 1 [] severity = "warning" -> 2 [] severity = "error" -> 3

\* the k-th smallest element of a set of numbers
Nth(S, k) == CHOOSE i \in S : Cardinality({j \in S : j <= i}) = k

\* main has filtered the sequence check_project returned
Filtered == caller = "main" /\ (pc = "filtered" \/ (pc = "exit" /\ output # <<>>))

\* C5: with a threshold t the filtered sequence is exactly the Issues of rank
\* >= rank(t), in their original order; with no threshold it is the input.
C5_FilterKeepsRankAtLeast ==
  Filtered =>
    IF argv.severity = "None" THEN result = issues
    ELSE LET kept == {i \in 1..Len(issues) :
                        RankOf(issues[i].severity) >= RankOf(argv.severity)}
         IN /\ Len(result) = Cardinality(kept)
            /\ \A k \in 1..Len(result) : result[k] = issues[Nth(kept, k)]

\* a threshold removed some Issues and kept others
C5_Witness ==
  /\ Filtered
  /\ argv.severity = "warning"
  /\ result # <<>>
  /\ Len(result) < Len(issues)

\* a is a subsequence of b
RECURSIVE IsSubseq(_, _)
IsSubseq(a, b) ==
  IF a = <<>> THEN TRUE
  ELSE IF b = <<>> THEN FALSE
  ELSE IF Head(a) = Head(b) THEN IsSubseq(Tail(a), Tail(b))
  ELSE IsSubseq(a, Tail(b))

\* C6: on the sequence main filters, the result for threshold error is a
\* subsequence of the result for warning, which is a subsequence of the
\* result for info, which is a subsequence of the input.
C6_FilterMonotonic ==
  Filtered =>
    /\ IsSubseq(filter_by_severity(issues, "error"), filter_by_severity(issues, "warning"))
    /\ IsSubseq(filter_by_severity(issues, "warning"), filter_by_severity(issues, "info"))
    /\ IsSubseq(filter_by_severity(issues, "info"), issues)
    /\ IsSubseq(result, issues)

\* the three thresholds give three different results
C6_Witness ==
  /\ Filtered
  /\ argv.severity = "error"
  /\ result # <<>>
  /\ Len(result) < Len(filter_by_severity(issues, "warning"))
  /\ Len(filter_by_severity(issues, "warning")) < Len(filter_by_severity(issues, "info"))

\* the text report was printed
TextReported == pc = "exit" /\ output # <<>> /\ argv.format # "json"

\* the indices of the Issues that are the first of their file
C7_FirstOfFile(iss) ==
  {i \in 1..Len(iss) : \A j \in 1..(i - 1) : iss[j].file # iss[i].file}

\* the positions of the file headings in the output
C7_Headings == {p \in 1..Len(output) : output[p].kind = "file"}

\* the Issues of one file, in their order in the sequence
C7_OfFile(iss, file) == SelectSeq(iss, LAMBDA i : i.file = file)

\* C7: for a non-empty sequence the text report has one heading per distinct
\* file, in first-seen order; under each heading come all Issues of that file,
\* in their original relative order, up to the blank line that ends the
\* file; every Issue is printed exactly once.
C7_ReportIsStablePartition ==
  (TextReported /\ result # <<>>) =>
    /\ output[1] = [kind |-> "found", count |-> Len(result)]
    /\ Cardinality(C7_Headings) = Cardinality(C7_FirstOfFile(result))
    /\ \A k \in 1..Cardinality(C7_Headings) :
         LET p    == Nth(C7_Headings, k)
             file == result[Nth(C7_FirstOfFile(result), k)].file
             mine == C7_OfFile(result, file)
         IN /\ output[p].file = file
            /\ p + Len(mine) + 1 <= Len(output)
            /\ \A n \in 1..Len(mine) : output[p + n] = IssueItem(mine[n])
            /\ output[p + Len(mine) + 1] = [kind |-> "blank"]
    /\ Cardinality({p \in 1..Len(output) : output[p].kind = "issue"}) = Len(result)

\* a report of a sequence in which the Issues of two files are interleaved
C7_Witness ==
  /\ TextReported
  /\ \E i, k, j \in 1..Len(result) :
       i < k /\ k < j /\ result[i].file = result[j].file /\ result[k].file # result[i].file
  /\ Cardinality(C7_Headings) = 2

\* C8: the text report of an empty sequence is the no-issues message alone:
\* no count header, no file heading.
C8_EmptyReportIsOnlyConfirmation ==
  (TextReported /\ result = <<>>) =>
    /\ output = <<[kind |-> "no-anti-patterns"]>>
    /\ \A p \in 1..Len(output) : output[p].kind \notin {"found", "file", "issue"}

\* threshold error on a tree whose Issues are all warning or info
C8_Witness ==
  /\ TextReported /\ caller = "main"
  /\ argv.severity = "error"
  /\ issues # <<>>
  /\ \A i \in 1..Len(issues) : issues[i].severity \in {"warning", "info"}
  /\ result = <<>>
  /\ output = <<[kind |-> "no-anti-patterns"]>>

\* the command line is a usage error
UsageError ==
  \/ ~argv.has_path
  \/ argv.format \notin {"text", "json"}
  \/ argv.severity \notin {"None", "error", "warning", "info"}

\* C9: a run with an unrecognized --format or --severity value or without the
\* project root enumerates and reads no file, produces no Issue and no report,
\* and ends at once with a non-zero status.
C9_UsageErrorBeforeScan ==
  (caller = "main" /\ UsageError) =>
    /\ pc \in {"start", "exit"}
    /\ calls = 0 /\ all_files = <<>> /\ checked = <<>> /\ opened = {}
    /\ issues = <<>> /\ result = <<>> /\ output = <<>>
    /\ pc = "exit" => status > 0

\* a run with --format xml on a tree with matching files has ended
C9_Witness ==
  /\ caller = "main" /\ pc = "exit"
  /\ argv = [has_path |-> TRUE, format |-> "xml", severity |-> "None"]
  /\ tree[FileA].kind = "text" /\ tree[FileA].content # <<>>
  /\ status = 2

\* C10: a run of the command that rendered its issue sequence, empty or not,
\* ends with status 0; a run ends with another status only on a usage error
\* or on an exception nothing catches.
C10_ExitZeroWithOrWithoutIssues ==
  (caller = "main" /\ pc = "exit") =>
    /\ output # <<>> => status = 0
    /\ (~UsageError /\ raised = "none") => (status = 0 /\ output # <<>>)
    /\ status # 0 => (UsageError \/ raised # "none")

\* a json run that rendered an Issue of severity error
C10_Witness ==
  /\ caller = "main" /\ pc = "exit"
  /\ argv.format = "json" /\ argv.severity = "error"
  /\ result # <<>>
  /\ result[1].severity = "error"
  /\ output # <<>>
  /\ status = 0

\* C12: every call of check_project on one PatternChecker over the unchanged
\* tree returns the sequence the first call returned.
C12_RepeatedScanReturnsSame ==
  \A k \in 1..Len(returns) : returns[k] = returns[1]

\* C11: a scaffold call that failed has created, truncated or modified no
\* file at the destination, and one that failed on an unknown pattern type
\* has created no directory either.
C11_NoPartialWrite ==
  step = "failed" =>
    /\ fs.file = fs_before.file
    /\ fs.data = fs_before.data
    /\ pattern_type \notin {"selection", "form", "context", "registry", "component"}
         => fs = fs_before

\* the same for the calls whose selection_type main can pass
C11_NoPartialWriteKnownSelectionType ==
  kwargs.selection_type # "weird" => C11_NoPartialWrite

====
